---- MODULE Spec2Model ----
(***************************************************************************)
(* Model of scripts/update-versions.py: RegistryUpdater and main().        *)
(*                                                                         *)
(* Strings the code slices or measures (commit hashes, commit messages)    *)
(* are sequences of one-character strings.  A repository URL is the        *)
(* sequence of its "/"-separated segments.  A YAML mapping is a function   *)
(* from keys to values, so a missing key is a key outside its DOMAIN.      *)
(* An f-string is the sequence of its parts.                               *)
(***************************************************************************)
EXTENDS Integers, Sequences, FiniteSets, TLC

\* ------------------------------------------------------------ bounds
MaxEntries == 2   \* longest apps.official list in the initial registry file
MaxRuns == 2      \* invocations of main() in one behaviour

\* ------------------------------------------------- program constants
ShortHashLen == 8     \* commit_hash[:8]
DisplayLimit == 50    \* commit_info['message'][:50]

\* ------------------------------------------------------ small helpers
Min(a, b) == IF a < b THEN a ELSE b

\* Python s[:n]
Take(s, n) == SubSeq(s, 1, Min(n, Len(s)))

\* Python d.get(k, default)
Get(d, k, default) == IF k \in DOMAIN d THEN d[k] ELSE default

\* Python d.update(e)
DictUpdate(d, e) ==
    [k \in (DOMAIN d) \cup (DOMAIN e) |-> IF k \in DOMAIN e THEN e[k] ELSE d[k]]

\* Python d[k] = v
DictSet(d, k, v) == [x \in (DOMAIN d) \cup {k} |-> IF x = k THEN v ELSE d[x]]

\* Python `not x` for a mapping, a sequence or None (None is the empty value)
Falsy(x) == DOMAIN x = {}

\* Python s.split('\n')[0]
FirstLine(s) ==
    IF \E i \in 1..Len(s) : s[i] = "\n"
    THEN SubSeq(s, 1, (CHOOSE i \in 1..Len(s) :
                          s[i] = "\n" /\ \A j \in 1..(i - 1) : s[j] # "\n") - 1)
    ELSE s

\* ------------------------------------------------------- input values
Msg(n) == [i \in 1..n |-> IF i % 7 = 0 THEN "y" ELSE "x"]

V_main == <<"m", "a", "i", "n">>
H_new == <<"d", "e", "f", "4", "5", "6", "7", "8", "9", "0", "1", "2">>
H_sib == <<"d", "e", "f", "4", "5", "6", "7", "8", "a", "b", "c", "d">>
H_old == <<"a", "b", "c", "1", "2", "3">>

GitsURL == <<"github.com", "ucli-tools", "gits">>
MdtURL == <<"github.com", "ucli-tools", "mdtexpdf", "tree", "main">>
SchemeURL == <<"https:", "", "github.com", "ucli-tools", "gits">>

GitsRepo == <<"ucli-tools", "gits">>
MdtRepo == <<"ucli-tools", "mdtexpdf">>
Repos == {GitsRepo, MdtRepo}

IsoDate == <<"2024-05-01", "T", "10:20:30", "Z">>
BadDate == <<"yesterday">>

\* Bodies of the commit-listing endpoint's answer, and its transport failures.
Commit(h, d, m) == [sha |-> h, date |-> d, message |-> m]
Responses ==
    { [kind |-> "urlerror"],
      [kind |-> "badjson"],
      [kind |-> "json", data |-> <<>>],
      [kind |-> "json", data |-> <<[date |-> IsoDate, message |-> Msg(3)]>>],
      [kind |-> "json", data |-> <<Commit(H_new, BadDate, Msg(3))>>],
      [kind |-> "json", data |-> <<Commit(H_new, IsoDate, Msg(DisplayLimit))>>],
      [kind |-> "json",
       data |-> <<Commit(H_sib, IsoDate,
                         Msg(DisplayLimit + 1) \o <<"\n">> \o Msg(2))>>],
      [kind |-> "json",
       data |-> <<Commit(H_old, IsoDate, Msg(4) \o <<"\n", "\n">> \o Msg(60))>>] }

OldInfo ==
    [commit_date |-> <<"2023-01-01", " ", "00:00:00", " UTC">>,
     commit_message |-> Msg(1),
     commit_url |-> <<"https:", "", "github.com", "ucli-tools", "gits", "commit", H_new>>,
     updated_at |-> <<"ts", 0>>,
     note |-> "pinned"]

EntryPool ==
    { [name |-> "gits", repo |-> GitsURL, version |-> V_main],
      [name |-> "gits", repo |-> GitsURL, version |-> H_new, version_info |-> OldInfo],
      [name |-> "mdtexpdf", repo |-> MdtURL, version |-> H_old],
      [name |-> "mirror", repo |-> SchemeURL, version |-> V_main],
      [name |-> "empty", repo |-> <<>>, version |-> V_main],
      [version |-> V_main] }

RECURSIVE SeqsUpTo(_, _)
SeqsUpTo(S, n) ==
    IF n = 0 THEN {<<>>}
    ELSE LET shorter == SeqsUpTo(S, n - 1)
         IN  shorter \cup {Append(s, e) : s \in {t \in shorter : Len(t) = n - 1}, e \in S}

Meta0 == [last_updated |-> <<"ts", 0>>]

\* Documents the registry file can hold when a run starts.  The file is held
\* as the document yaml.safe_load reads from it: safe_dump writes strings,
\* mappings and lists so that safe_load reads them back unchanged.
Documents ==
    {[metadata |-> Meta0, apps |-> [official |-> es]] : es \in SeqsUpTo(EntryPool, MaxEntries)}
    \cup {[apps |-> [official |-> es]] : es \in SeqsUpTo(EntryPool, MaxEntries) \ {<<>>}}
    \cup {[metadata |-> Meta0], <<>>}

Files ==
    {[kind |-> "missing"], [kind |-> "invalid"]}
    \cup {[kind |-> "yaml", doc |-> d] : d \in Documents}

\* ------------------------------------------------------------ state
VARIABLES
    file,           \* content of registry/apps.yaml on disk
    upstream,       \* what the commit-listing endpoint answers, per owner/repo
    run,            \* number of invocations of main() started so far
    dry_run,        \* self.dry_run of the current invocation
    pc,             \* position of the current invocation
    registry,       \* the loaded document (local `registry`), None as <<>>
    idx,            \* position of the `for app in official_apps` loop
    outcomes,       \* the (name, updated, message) lines printed by the loop
    updated_count,  \* local updated_count
    failed_count,   \* local failed_count
    summary,        \* the printed summary block, <<>> while not printed
    exit_status,    \* argument of sys.exit, -1 while the process runs
    diagnostic,     \* which failure message the run printed
    prefile,        \* content of the file when the current invocation started
    writes,         \* times the current invocation opened the file for writing
    saved,          \* what save_registry returned: "not called", "ok", "failed"
    prev            \* how the previous invocation ended

vars ==
    <<file, upstream, run, dry_run, pc, registry, idx, outcomes, updated_count,
      failed_count, summary, exit_status, diagnostic, prefile, writes, saved,
      prev>>

\* datetime.now(timezone.utc).strftime('%Y-%m-%d %H:%M:%S UTC'): the clock
\* reads a later time in every invocation.
utc_now == <<"ts", run>>

\* ------------------------------------------------ get_github_commit_info
\* re.match(r"github\.com/([^/]+)/([^/]+)", repo_url).groups(), <<>> for no match
ParseRepo(repo_url) ==
    IF /\ Len(repo_url) >= 3
       /\ repo_url[1] = "github.com"
       /\ repo_url[2] # ""
       /\ repo_url[3] # ""
    THEN <<repo_url[2], repo_url[3]>>
    ELSE <<>>

\* datetime.fromisoformat(d.replace('Z', '+00:00')) succeeds
IsIsoDate(d) == Len(d) = 4 /\ d[2] = "T" /\ d[4] \in {"Z", "+00:00"}

\* parsed_date.strftime('%Y-%m-%d %H:%M:%S UTC')
FormatDate(d) == <<d[1], " ", d[3], " UTC">>

\* f"https://github.com/{owner}/{repo}/commit/{commit_hash}"
CommitURL(owner, repo, commit_hash) ==
    <<"https:", "", "github.com", owner, repo, "commit", commit_hash>>

\* The body of the try block: the value it returns (None as <<>>) or the
\* class of the exception it raises.
Returns(v) == [raise |-> "", value |-> v]
Raises(exc) == [raise |-> exc, value |-> <<>>]

FetchCommit(repo_url) ==
    LET match == ParseRepo(repo_url)
    IN  IF match = <<>> THEN Returns(<<>>)              \* invalid URL format
        ELSE
          LET response == upstream[match]
          IN  IF response.kind = "urlerror" THEN Raises("URLError")
              ELSE IF response.kind = "badjson" THEN Raises("JSONDecodeError")
              ELSE IF Falsy(response.data) THEN Returns(<<>>)     \* no commits found
              ELSE
                LET commit == response.data[1]
                IN  IF "sha" \notin DOMAIN commit THEN Raises("KeyError")
                    ELSE IF ~IsIsoDate(commit.date) THEN Raises("ValueError")
                    ELSE Returns([hash |-> commit.sha,
                                  short_hash |-> Take(commit.sha, ShortHashLen),
                                  date |-> FormatDate(commit.date),
                                  message |-> FirstLine(commit.message),
                                  url |-> CommitURL(match[1], match[2], commit.sha)])

\* Handled without the final `except Exception` clause.
HandledWithoutCatchAll(exc) == exc = "URLError" \/ exc = "JSONDecodeError"

\* The except clauses: URLError, json.JSONDecodeError, then Exception, which
\* is a base class of every exception the try block raises.
Handled(exc) ==
    \/ exc = "URLError"
    \/ exc = "JSONDecodeError"
    \/ exc \in {"URLError", "JSONDecodeError", "KeyError", "ValueError"}

\* The commit descriptor, or None (<<>>) on any of the caught failures.
get_github_commit_info(repo_url) ==
    LET r == FetchCommit(repo_url)
    IN  IF r.raise # "" /\ Handled(r.raise) THEN Returns(<<>>) ELSE r

\* ---------------------------------------------------- update_app_version
\* UpToDate comparing the stored version with the short hash.
UpToDateShort(current_version, commit_info) == current_version = commit_info.short_hash

\* current_version == new_version
UpToDate(current_version, commit_info) == current_version = commit_info.hash

\* DisplayMessage with the ellipsis test off by one.
DisplayMessageOffByOne(m) ==
    Take(m, DisplayLimit) \o (IF Len(m) >= DisplayLimit THEN <<".", ".", ".">> ELSE <<>>)

\* commit_info['message'][:50] + ('...' if len(commit_info['message']) > 50 else '')
DisplayMessage(m) ==
    Take(m, DisplayLimit) \o (IF Len(m) > DisplayLimit THEN <<".", ".", ".">> ELSE <<>>)

\* ApplyUpdate assigning version_info instead of updating it.
ApplyUpdateReplacingInfo(app, commit_info, now) ==
    DictSet(DictSet(app, "version", commit_info.hash), "version_info",
            [commit_date |-> commit_info.date,
             commit_message |-> commit_info.message,
             commit_url |-> commit_info.url,
             updated_at |-> now])

\* The mutation of the entry: version, then version_info created and updated.
ApplyUpdate(app, commit_info, now) ==
    LET versioned == DictSet(app, "version", commit_info.hash)
        withInfo == IF "version_info" \notin DOMAIN versioned
                    THEN DictSet(versioned, "version_info", <<>>)
                    ELSE versioned
    IN  DictSet(withInfo, "version_info",
                DictUpdate(withInfo["version_info"],
                           [commit_date |-> commit_info.date,
                            commit_message |-> commit_info.message,
                            commit_url |-> commit_info.url,
                            updated_at |-> now]))

NoRepoReason == <<"No repository URL specified">>
FetchFailedReason == <<"Failed to fetch commit information">>

\* update_app_version creating version_info before its early returns.
update_app_version_eager_info(app, now) ==
    LET app0 == IF "version_info" \notin DOMAIN app
                THEN DictSet(app, "version_info", <<>>) ELSE app
        repo_url == Get(app, "repo", <<>>)
        fetched == get_github_commit_info(repo_url)
        commit_info == fetched.value
    IN  IF Falsy(repo_url)
        THEN [app |-> app0, updated |-> FALSE, message |-> NoRepoReason, raise |-> ""]
        ELSE IF fetched.raise # ""
        THEN [app |-> app0, updated |-> FALSE, message |-> <<>>, raise |-> fetched.raise]
        ELSE IF Falsy(commit_info)
        THEN [app |-> app0, updated |-> FALSE, message |-> FetchFailedReason, raise |-> ""]
        ELSE IF UpToDate(Get(app, "version", <<>>), commit_info)
        THEN [app |-> app0, updated |-> FALSE, raise |-> "",
              message |-> <<"Already at latest version ", commit_info.short_hash>>]
        ELSE [app |-> ApplyUpdate(app0, commit_info, now), updated |-> TRUE, raise |-> "",
              message |-> <<"Updated to ", commit_info.short_hash, ": ",
                            DisplayMessage(commit_info.message)>>]

\* The entry after the call and the returned (updated, message); `raise` is
\* the class of an exception that left the call, "" when it returned.
update_app_version(app, now) ==
    LET repo_url == Get(app, "repo", <<>>)
        current_version == Get(app, "version", <<>>)
        fetched == get_github_commit_info(repo_url)
        commit_info == fetched.value
    IN  IF Falsy(repo_url)
        THEN [app |-> app, updated |-> FALSE, message |-> NoRepoReason, raise |-> ""]
        ELSE IF fetched.raise # ""
        THEN [app |-> app, updated |-> FALSE, message |-> <<>>, raise |-> fetched.raise]
        ELSE IF Falsy(commit_info)
        THEN [app |-> app, updated |-> FALSE, message |-> FetchFailedReason, raise |-> ""]
        ELSE IF UpToDate(current_version, commit_info)
        THEN [app |-> app, updated |-> FALSE, raise |-> "",
              message |-> <<"Already at latest version ", commit_info.short_hash>>]
        ELSE [app |-> ApplyUpdate(app, commit_info, now), updated |-> TRUE, raise |-> "",
              message |-> <<"Updated to ", commit_info.short_hash, ": ",
                            DisplayMessage(commit_info.message)>>]

\* ------------------------------------------------------- load_registry
\* yaml.safe_load of the file; None (<<>>) when the file is absent
\* (FileNotFoundError) or is not YAML (yaml.YAMLError), both caught.
load_registry(f) == IF f.kind = "yaml" THEN f.doc ELSE <<>>

LoadDiagnostic(f) ==
    IF f.kind = "missing" THEN "Registry file not found"
    ELSE IF f.kind = "invalid" THEN "Error parsing YAML"
    ELSE ""

\* registry.get('apps', {}).get('official', [])
official_apps(reg) == Get(Get(reg, "apps", <<>>), "official", <<>>)

\* ------------------------------------------------------- save_registry
\* registry['metadata']['last_updated'] = now
Stamp(reg, now) ==
    DictSet(reg, "metadata", DictSet(reg["metadata"], "last_updated", now))

\* ShouldWrite with the dry-run guard dropped.
ShouldWriteAlways(dry) == TRUE

\* `if not self.dry_run:` guards the write
ShouldWrite(dry) == ~dry

\* What open(..., 'w') followed by an interrupted yaml.safe_dump can leave:
\* the file was truncated by open, then holds a prefix of the dump.
Truncations(doc) ==
    {[kind |-> "yaml", doc |-> <<>>], [kind |-> "invalid"],
     [kind |-> "yaml", doc |-> [metadata |-> doc["metadata"]]]}
    \cup {[kind |-> "yaml",
           doc |-> DictSet(doc, "apps",
                           DictSet(doc["apps"], "official",
                                   SubSeq(official_apps(doc), 1, k)))] :
          k \in 1..(Len(official_apps(doc)) - 1)}

\* The outcomes of `with open(registry_file, 'w') as f: yaml.safe_dump(...)`:
\* the whole document written, open() raising, or the dump raising part-way.
WriteOutcomes(old, doc) ==
    {[file |-> [kind |-> "yaml", doc |-> doc], opened |-> 1, ok |-> TRUE],
     [file |-> old, opened |-> 0, ok |-> FALSE]}
    \cup {[file |-> t, opened |-> 1, ok |-> FALSE] : t \in Truncations(doc)}

\* The outcomes of save_registry: the document in memory, the file, the
\* number of times the file was opened for writing, and the returned bool.
save_registry(reg, old, dry, now) ==
    IF "metadata" \notin DOMAIN reg
    THEN {[registry |-> reg, file |-> old, opened |-> 0, ok |-> FALSE]}   \* KeyError
    ELSE LET stamped == Stamp(reg, now)
         IN  IF ShouldWrite(dry)
             THEN {[registry |-> stamped, file |-> w.file, opened |-> w.opened,
                    ok |-> w.ok] : w \in WriteOutcomes(old, stamped)}
             ELSE {[registry |-> stamped, file |-> old, opened |-> 0, ok |-> TRUE]}

\* -------------------------------------------------- update_all_versions
\* `if updated_count > 0:` decides between saving and "No updates needed"
AfterLoop(count) == IF count > 0 THEN "saving" ELSE "reporting"

\* AfterSave falling through to the summary whatever save_registry returned.
AfterSaveFallThrough(ok) == "reporting"

\* `if self.save_registry(registry): ... else: ... return False`
AfterSave(ok) == IF ok THEN "reporting" ELSE "aborted"

\* f"{'DRY RUN' if self.dry_run else 'LIVE UPDATE'}"
Mode(dry) == IF dry THEN "DRY RUN" ELSE "LIVE UPDATE"

\* The four summary lines.
Summary(apps, updated, failed, dry) ==
    [checked |-> Len(apps), updated |-> updated, failed |-> failed, mode |-> Mode(dry)]

\* ExitCode ignoring the result of update_all_versions.
ExitCodeIgnoringResult(success) == 0

\* sys.exit(0 if success else 1)
ExitCode(success) == IF success THEN 0 ELSE 1

NoRun == [ran |-> FALSE, dry |-> FALSE, exit |-> -1, updated |-> 0]

Init ==
    /\ file \in Files
    /\ upstream \in [Repos -> Responses]
    /\ run = 0
    /\ dry_run = FALSE
    /\ pc = "idle"
    /\ registry = <<>>
    /\ idx = 1
    /\ outcomes = <<>>
    /\ updated_count = 0
    /\ failed_count = 0
    /\ summary = <<>>
    /\ exit_status = -1
    /\ diagnostic = ""
    /\ prefile = file
    /\ writes = 0
    /\ saved = "not called"
    /\ prev = NoRun

\* main(): parse the flags, build the updater, enter update_all_versions.
StartRun(d) ==
    /\ pc \in {"idle", "done", "aborted", "crashed"}
    /\ run < MaxRuns
    /\ run' = run + 1
    /\ dry_run' = d
    /\ pc' = "loading"
    /\ registry' = <<>>
    /\ idx' = 1
    /\ outcomes' = <<>>
    /\ updated_count' = 0
    /\ failed_count' = 0
    /\ summary' = <<>>
    /\ exit_status' = -1
    /\ diagnostic' = ""
    /\ prefile' = file
    /\ writes' = 0
    /\ saved' = "not called"
    /\ prev' = IF run = 0 THEN NoRun
               ELSE [ran |-> TRUE, dry |-> dry_run, exit |-> exit_status,
                     updated |-> updated_count]
    /\ UNCHANGED <<file, upstream>>

\* update_all_versions up to the loop: load, the two early returns.
Load ==
    /\ pc = "loading"
    /\ LET reg == load_registry(file)
       IN  /\ registry' = reg
           /\ IF Falsy(reg)
              THEN /\ pc' = "aborted"
                   /\ diagnostic' = LoadDiagnostic(file)
                   /\ exit_status' = ExitCode(FALSE)
              ELSE IF Falsy(official_apps(reg))
              THEN /\ pc' = "aborted"
                   /\ diagnostic' = "No official apps found in registry"
                   /\ exit_status' = ExitCode(FALSE)
              ELSE /\ pc' = "reconciling"
                   /\ UNCHANGED <<diagnostic, exit_status>>
    /\ UNCHANGED <<file, upstream, run, dry_run, idx, outcomes, updated_count,
                   failed_count, summary, prefile, writes, saved, prev>>

\* One iteration of `for app in official_apps`.  An exception leaving
\* update_app_version would leave update_all_versions and main() too: the
\* interpreter prints the traceback and exits with status 1.
ProcessEntry ==
    /\ pc = "reconciling"
    /\ idx <= Len(official_apps(registry))
    /\ LET app == official_apps(registry)[idx]
           r == update_app_version(app, utc_now)
       IN  IF r.raise # ""
           THEN /\ pc' = "crashed"
                /\ diagnostic' = "Traceback"
                /\ exit_status' = 1
                /\ UNCHANGED <<registry, outcomes, updated_count, idx>>
           ELSE /\ registry' = DictSet(registry, "apps",
                                       DictSet(registry["apps"], "official",
                                               [official_apps(registry) EXCEPT ![idx] = r.app]))
                /\ outcomes' = Append(outcomes,
                                      [name |-> Get(app, "name", "unknown"),
                                       updated |-> r.updated, message |-> r.message])
                /\ updated_count' = IF r.updated THEN updated_count + 1 ELSE updated_count
                /\ idx' = idx + 1
                /\ UNCHANGED <<pc, diagnostic, exit_status>>
    /\ UNCHANGED <<file, upstream, run, dry_run, failed_count, summary,
                   prefile, writes, saved, prev>>

\* The loop is exhausted: save when something was updated, else skip.
FinishLoop ==
    /\ pc = "reconciling"
    /\ idx > Len(official_apps(registry))
    /\ pc' = AfterLoop(updated_count)
    /\ UNCHANGED <<file, upstream, run, dry_run, registry, idx, outcomes,
                   updated_count, failed_count, summary, exit_status, diagnostic,
                   prefile, writes, saved, prev>>

\* self.save_registry(registry) and the branch on its result.
Save ==
    /\ pc = "saving"
    /\ \E s \in save_registry(registry, file, dry_run, utc_now) :
          /\ registry' = s.registry
          /\ file' = s.file
          /\ writes' = writes + s.opened
          /\ saved' = IF s.ok THEN "ok" ELSE "failed"
          /\ pc' = AfterSave(s.ok)
          /\ IF AfterSave(s.ok) = "aborted"
             THEN /\ diagnostic' = "Failed to save registry"
                  /\ exit_status' = ExitCode(FALSE)
             ELSE UNCHANGED <<diagnostic, exit_status>>
    /\ UNCHANGED <<upstream, run, dry_run, idx, outcomes, updated_count,
                   failed_count, summary, prefile, prev>>

\* The summary block, `return True`, sys.exit(0).
Report ==
    /\ pc = "reporting"
    /\ summary' = Summary(official_apps(registry), updated_count, failed_count, dry_run)
    /\ pc' = "done"
    /\ exit_status' = ExitCode(TRUE)
    /\ UNCHANGED <<file, upstream, run, dry_run, registry, idx, outcomes,
                   updated_count, failed_count, diagnostic, prefile, writes, saved, prev>>

Next ==
    \/ \E d \in BOOLEAN : StartRun(d)
    \/ Load
    \/ ProcessEntry
    \/ FinishLoop
    \/ Save
    \/ Report

Spec == Init /\ [][Next]_vars

\* =============================================================== claims
\* The tracked entries as the run loaded them, and as they are in memory.
Loaded == official_apps(load_registry(prefile))
Current == official_apps(registry)

\* The run is past the loop (the loop is left only when it is exhausted).
PastLoop ==
    \/ pc \in {"saving", "reporting", "done"}
    \/ pc = "aborted" /\ diagnostic = "Failed to save registry"

\* Resolution of a repository reference fails: invalid reference, network
\* error, malformed response, or empty commit list.
ResolutionError(repo_url) ==
    \/ ParseRepo(repo_url) = <<>>
    \/ LET response == upstream[ParseRepo(repo_url)]
       IN  \/ response.kind \in {"urlerror", "badjson"}
           \/ /\ response.kind = "json"
              /\ \/ response.data = <<>>
                 \/ "sha" \notin DOMAIN response.data[1]
                 \/ ~IsIsoDate(response.data[1].date)

HasRepo(app) == Get(app, "repo", <<>>) # <<>>

FetchFails(app) == HasRepo(app) /\ ResolutionError(app["repo"])

\* The hash an entry's repository resolves to (for entries that resolve).
ResolvedHash(app) == upstream[ParseRepo(app["repo"])].data[1].sha

\* The entry resolves to a hash other than the version it was loaded with.
NeedsUpdate(app) ==
    /\ HasRepo(app)
    /\ ~ResolutionError(app["repo"])
    /\ ResolvedHash(app) # Get(app, "version", <<>>)

\* C1 (partial-failure isolation): every processed entry has its outcome, in
\* the original order; an entry whose resolution fails has the outcome
\* updated=false, "Failed to fetch commit information"; past the loop there
\* is one outcome per entry; and a run aborts only on loading or saving,
\* never while entries are processed.
C1_PartialFailureIsolation ==
    /\ pc # "crashed"
    /\ Len(outcomes) = idx - 1
    /\ PastLoop => Len(outcomes) = Len(Loaded)
    /\ \A k \in 1..Len(outcomes) :
          /\ outcomes[k].name = Get(Loaded[k], "name", "unknown")
          /\ FetchFails(Loaded[k]) =>
                /\ outcomes[k].updated = FALSE
                /\ outcomes[k].message = FetchFailedReason
    /\ pc = "aborted" /\ diagnostic # "Failed to save registry" => outcomes = <<>>

\* A finished run in which entry k failed to resolve and entry k+1 was updated.
C1_Witness ==
    /\ pc = "done"
    /\ \E k \in 1..(Len(outcomes) - 1) :
          /\ FetchFails(Loaded[k])
          /\ outcomes[k].message = FetchFailedReason
          /\ outcomes[k + 1].updated

\* C2 (dry-run purity): in a dry run the registry file is never opened for
\* writing and keeps the content it had when the run started, however many
\* entries would update; the summary reports the number of entries that
\* would have been updated and the mode DRY RUN.
C2_DryRunPurity ==
    dry_run /\ run > 0 =>
        /\ file = prefile
        /\ writes = 0
        /\ summary # <<>> =>
              /\ summary.updated = Cardinality({k \in 1..Len(Loaded) : NeedsUpdate(Loaded[k])})
              /\ summary.mode = "DRY RUN"

\* A dry run that reported a summary with every entry needing an update.
C2_Witness ==
    /\ dry_run
    /\ pc = "done"
    /\ summary.updated = MaxEntries
    /\ \A k \in 1..Len(Loaded) : NeedsUpdate(Loaded[k])

\* C4 (failed count): the summary's failed count is the number of entries
\* whose resolution ended in an error, its checked count the number of
\* tracked entries, its updated count the number of updated outcomes.
C4_FailedCount ==
    summary # <<>> =>
        /\ summary.failed =
              Cardinality({k \in 1..Len(outcomes) : outcomes[k].message = FetchFailedReason})
        /\ summary.checked = Len(Loaded)
        /\ summary.updated = Cardinality({k \in 1..Len(outcomes) : outcomes[k].updated})

\* The summary of a run that updated an entry and failed one reports no failure.
C4_Witness ==
    /\ pc = "done"
    /\ summary.failed = 0
    /\ \E k \in 1..Len(outcomes) : outcomes[k].message = FetchFailedReason

\* C3 (idempotence): when a live run that ended with status 0 is followed by
\* another live run against the same upstream, the second run updates
\* nothing, does not fail, and leaves every tracked entry of the persisted
\* document as the first run left it.
C3_Idempotence ==
    prev.ran /\ ~prev.dry /\ prev.exit = 0 /\ ~dry_run =>
        /\ updated_count = 0
        /\ pc \notin {"aborted", "crashed", "saving"}
        /\ file.kind = "yaml"
        /\ official_apps(file.doc) = Loaded
        /\ pc \notin {"loading"} => Current = Loaded

\* The second of two live runs is done, the first having updated an entry.
C3_Witness ==
    /\ pc = "done"
    /\ ~dry_run
    /\ prev.ran /\ ~prev.dry /\ prev.exit = 0 /\ prev.updated > 0
    /\ summary.updated = 0

LoadFailed == Falsy(load_registry(prefile))
NoApps == ~LoadFailed /\ Falsy(Loaded)
Finished == pc \in {"done", "aborted", "crashed"}

\* C5 as claimed: status 1 only when the document could not be loaded or a
\* required save failed, status 0 on every other finished run, a loaded
\* document without entries included.
C5_ExitStatusAsClaimed ==
    Finished =>
        /\ exit_status = 1 => LoadFailed \/ saved = "failed"
        /\ ~LoadFailed /\ saved # "failed" => exit_status = 0

\* C5 (exit status, amended): a finished run exits with status 1 exactly
\* when the document could not be loaded (absent, not YAML, or empty), when
\* apps.official has no entries, or when save_registry returned false, and
\* with status 0 otherwise, also when every resolution failed; the aborted
\* state is entered only from loading (before any entry is processed) or
\* from saving.
C5_ExitStatus ==
    /\ [](/\ exit_status \in {-1, 0, 1}
          /\ exit_status = -1 <=> ~Finished
          /\ exit_status = 1 <=> pc = "aborted"
          /\ pc = "aborted" <=> Finished /\ (LoadFailed \/ NoApps \/ saved = "failed")
          /\ exit_status = 0 => summary # <<>>)
    /\ [][pc' = "aborted" /\ pc # "aborted" => pc \in {"loading", "saving"}]_vars

\* A run over a loaded document without entries ended with status 1, and a
\* run in which every entry failed to resolve ended with status 0.
C5_Witness == pc = "aborted" /\ NoApps /\ exit_status = 1

C5_AllFailedWitness ==
    /\ pc = "done"
    /\ exit_status = 0
    /\ Len(Loaded) = MaxEntries
    /\ \A k \in 1..Len(Loaded) : FetchFails(Loaded[k])

\* C6 as claimed: after a failed save of a live run the summary is reported.
C6_SummaryAfterFailedSave ==
    Finished /\ ~dry_run /\ updated_count > 0 /\ saved = "failed" => summary # <<>>

\* C6 (save failure, amended): when save_registry fails, the run has
\* reported one outcome per entry, reports the failure to save, and exits
\* with status 1 without reporting the summary: it goes from saving to
\* aborted and not through reporting.
C6_SaveFailureAborts ==
    saved = "failed" =>
        /\ pc = "aborted"
        /\ summary = <<>>
        /\ exit_status = 1
        /\ diagnostic = "Failed to save registry"
        /\ updated_count > 0
        /\ Len(outcomes) = Len(Loaded)

\* A live run whose write failed after the file was opened.
C6_Witness == saved = "failed" /\ ~dry_run /\ writes = 1 /\ pc = "aborted"

\* C7 (no partial save): the file holds the pre-run document or the
\* complete mutated document, and is opened for writing at most once per
\* run, after every entry has been processed.
C7_NoPartialSave ==
    /\ \/ file = prefile
       \/ PastLoop /\ file = [kind |-> "yaml", doc |-> registry]
    /\ writes <= 1
    /\ writes = 1 => PastLoop

\* C8 (selective mutation): an entry whose call returned updated=false is
\* unchanged, which is the case when repo is missing or empty (reason "No
\* repository URL specified"), when resolution fails and when the resolved
\* hash equals the stored version; entries not yet processed are unchanged;
\* an updated entry changes in version and version_info only; no entry is
\* created, deleted or reordered, in memory or in the written file.
C8_SelectiveMutation ==
    /\ pc = "reconciling" \/ PastLoop =>
          /\ Len(Current) = Len(Loaded)
          /\ \A k \in 1..Len(Loaded) :
                /\ k >= idx => Current[k] = Loaded[k]
                /\ k < idx /\ ~outcomes[k].updated => Current[k] = Loaded[k]
                /\ k < idx /\ ~HasRepo(Loaded[k]) =>
                      ~outcomes[k].updated /\ outcomes[k].message = NoRepoReason
                /\ k < idx /\ ~NeedsUpdate(Loaded[k]) => ~outcomes[k].updated
                /\ DOMAIN Current[k] \ {"version_info"} = DOMAIN Loaded[k] \ {"version_info"}
                /\ \A key \in DOMAIN Loaded[k] \ {"version", "version_info"} :
                      Current[k][key] = Loaded[k][key]
    /\ pc = "done" =>
          /\ Len(official_apps(file.doc)) = Len(Loaded)
          /\ \A k \in 1..Len(Loaded) :
                Get(official_apps(file.doc)[k], "name", "unknown") = outcomes[k].name

\* A missing repo, a failed resolution and an up-to-date entry were each
\* processed without an update.
C8_WitnessNoRepo ==
    \E k \in 1..Len(outcomes) : "repo" \notin DOMAIN Loaded[k] /\ ~outcomes[k].updated

C8_Witness ==
    /\ pc = "done"
    /\ \E k \in 1..Len(outcomes) :
          /\ HasRepo(Loaded[k])
          /\ ~FetchFails(Loaded[k])
          /\ ~outcomes[k].updated
          /\ "version_info" \in DOMAIN Loaded[k]
    /\ \E k \in 1..Len(outcomes) : outcomes[k].updated

\* m is the first line of raw.
IsFirstLineOf(m, raw) ==
    /\ Len(m) <= Len(raw)
    /\ \A i \in 1..Len(m) : m[i] = raw[i] /\ m[i] # "\n"
    /\ Len(m) = Len(raw) \/ raw[Len(m) + 1] = "\n"

RawMessage(app) == upstream[ParseRepo(app["repo"])].data[1].message

\* C9 (truncation law): for an updated entry, the stored commit_message m is
\* the whole first line of the upstream message, and the message shown
\* after "Updated to <short_hash>: " is m when len(m) <= 50 and the first 50
\* characters of m followed by "..." when len(m) > 50.
C9_TruncationLaw ==
    \A k \in 1..Len(outcomes) :
        outcomes[k].updated =>
            LET m == Current[k]["version_info"]["commit_message"]
                shown == outcomes[k].message[4]
            IN  /\ IsFirstLineOf(m, RawMessage(Loaded[k]))
                /\ Len(m) <= DisplayLimit => shown = m
                /\ Len(m) > DisplayLimit =>
                      /\ Len(shown) = DisplayLimit + 3
                      /\ \A i \in 1..DisplayLimit : shown[i] = m[i]
                      /\ \A i \in (DisplayLimit + 1)..(DisplayLimit + 3) : shown[i] = "."

\* Updated entries with a message of exactly 50 and of more than 50 characters.
C9_Witness ==
    /\ \E k \in 1..Len(outcomes) :
          /\ outcomes[k].updated
          /\ Len(Current[k]["version_info"]["commit_message"]) = DisplayLimit
    /\ \E k \in 1..Len(outcomes) :
          /\ outcomes[k].updated
          /\ Len(Current[k]["version_info"]["commit_message"]) > DisplayLimit
          /\ Len(outcomes[k].message[4]) = DisplayLimit + 3

InfoKeys == {"commit_date", "commit_message", "commit_url", "updated_at"}

\* C10 (update applies): a processed entry with a repo that resolves to a
\* hash other than its stored version has version = the full hash,
\* version_info holding the resolution's commit_date, commit_message and
\* commit_url and the time of the update beside the keys it already had, the
\* outcome updated=true "Updated to <first 8 of hash>: ...", and counts in
\* updated_count; after a live run that ended with status 0 the persisted
\* version of each such entry is its resolved hash.
C10_UpdateApplies ==
    /\ \A k \in 1..Len(outcomes) :
          NeedsUpdate(Loaded[k]) =>
              LET h == ResolvedHash(Loaded[k])
                  commit == upstream[ParseRepo(Loaded[k]["repo"])].data[1]
                  old == Get(Loaded[k], "version_info", <<>>)
                  info == Current[k]["version_info"]
              IN  /\ Current[k]["version"] = h
                  /\ DOMAIN info = DOMAIN old \cup InfoKeys
                  /\ info["commit_date"] = <<commit.date[1], " ", commit.date[3], " UTC">>
                  /\ IsFirstLineOf(info["commit_message"], commit.message)
                  /\ info["commit_url"] =
                        <<"https:", "", "github.com">> \o ParseRepo(Loaded[k]["repo"])
                           \o <<"commit", h>>
                  /\ info["updated_at"] = utc_now
                  /\ \A key \in DOMAIN old \ InfoKeys : info[key] = old[key]
                  /\ outcomes[k].updated
                  /\ outcomes[k].message[1] = "Updated to "
                  /\ outcomes[k].message[2] = SubSeq(h, 1, Min(ShortHashLen, Len(h)))
                  /\ outcomes[k].message[3] = ": "
    /\ updated_count = Cardinality({k \in 1..Len(outcomes) : NeedsUpdate(Loaded[k])})
    /\ pc = "done" /\ ~dry_run =>
          \A k \in 1..Len(Loaded) :
              NeedsUpdate(Loaded[k]) =>
                  official_apps(file.doc)[k]["version"] = ResolvedHash(Loaded[k])

\* A live run ended with status 0 after updating an entry that already had a
\* version_info with a key of its own, and one that had no version_info.
C10_Witness ==
    /\ pc = "done"
    /\ ~dry_run
    /\ \E k \in 1..Len(Loaded) :
          /\ NeedsUpdate(Loaded[k])
          /\ "note" \in DOMAIN Get(Loaded[k], "version_info", <<>>)
          /\ official_apps(file.doc)[k]["version"] = H_sib
    /\ \E k \in 1..Len(Loaded) :
          /\ NeedsUpdate(Loaded[k])
          /\ "version_info" \notin DOMAIN Loaded[k]

====
